---- MODULE Spec2Model ----
(***************************************************************************)
(* media2array.py: converts images and WAV files into C array literals.    *)
(* The model follows the script: the HexTable formatter, convertImage      *)
(* (bitmap and colour branches), convertWav, and the module-level main     *)
(* loop with the closing gamma tables.                                     *)
(*                                                                         *)
(* stdout is a sequence of tokens, one per piece of text the script        *)
(* writes.  A token is a record [t, name, n, text]:                        *)
(*   t = "define"  a "#define <prefix><name> <n>" line                     *)
(*   t = "decl"    "const ... PROGMEM <prefix><name>[] = {"                *)
(*   t = "comma" | "space" | "wrap" | "close"   the strings ",", " ",      *)
(*                 "\n  " and " };\n" written by HexTable.write            *)
(*   t = "hex"     one element: n is the value passed to write, text the   *)
(*                 characters produced by "{0:#0{1}x}".format              *)
(***************************************************************************)
EXTENDS Integers, Sequences, FiniteSets, TLC

\* ------------------------------------------------------------------ bounds
MaxBitmapW == 10
MaxBitmapH == 2
MaxColorW == 3
MaxColorH == 3
MaxSamples == 5
MaxChannels == 2
MaxArgs == 2
MaxCount == 6
MaxColumns == 4

\* ------------------------------------------------- integer and bit helpers
Min(a, b) == IF a < b THEN a ELSE b

Pow2(k) == 2 ^ k

\* Python's a << k and a >> k on non-negative integers
Shl(a, k) == a * Pow2(k)

Shr(a, k) == a \div Pow2(k)

\* bit number k (0 = least significant) of a
BitAt(a, k) == (a \div Pow2(k)) % 2

AndBit(a, b, k) == IF BitAt(a, k) = 1 /\ BitAt(b, k) = 1 THEN Pow2(k) ELSE 0

OrBit(a, b, k) == IF BitAt(a, k) = 1 \/ BitAt(b, k) = 1 THEN Pow2(k) ELSE 0

\* Python's a & b, bit by bit, on integers 0 <= a, b < 2^20 (every value the
\* script combines is below 2^17)
BitAnd(a, b) ==
  AndBit(a, b, 0) + AndBit(a, b, 1) + AndBit(a, b, 2) + AndBit(a, b, 3)
  + AndBit(a, b, 4) + AndBit(a, b, 5) + AndBit(a, b, 6) + AndBit(a, b, 7)
  + AndBit(a, b, 8) + AndBit(a, b, 9) + AndBit(a, b, 10) + AndBit(a, b, 11)
  + AndBit(a, b, 12) + AndBit(a, b, 13) + AndBit(a, b, 14) + AndBit(a, b, 15)
  + AndBit(a, b, 16) + AndBit(a, b, 17) + AndBit(a, b, 18) + AndBit(a, b, 19)

\* Python's a | b, bit by bit, on integers 0 <= a, b < 2^20
BitOr(a, b) ==
  OrBit(a, b, 0) + OrBit(a, b, 1) + OrBit(a, b, 2) + OrBit(a, b, 3)
  + OrBit(a, b, 4) + OrBit(a, b, 5) + OrBit(a, b, 6) + OrBit(a, b, 7)
  + OrBit(a, b, 8) + OrBit(a, b, 9) + OrBit(a, b, 10) + OrBit(a, b, 11)
  + OrBit(a, b, 12) + OrBit(a, b, 13) + OrBit(a, b, 14) + OrBit(a, b, 15)
  + OrBit(a, b, 16) + OrBit(a, b, 17) + OrBit(a, b, 18) + OrBit(a, b, 19)

\* ------------------------------------------------------ formatted hex output
HexChars == <<"0", "1", "2", "3", "4", "5", "6", "7",
              "8", "9", "a", "b", "c", "d", "e", "f">>

RECURSIVE HexDigitsOf(_)
\* the hexadecimal digits of n >= 0, most significant first, no padding
HexDigitsOf(n) ==
  IF n < 16 THEN <<HexChars[n + 1]>>
  ELSE Append(HexDigitsOf(n \div 16), HexChars[(n % 16) + 1])

\* "{0:#0{1}x}".format(n, width) for n >= 0: the prefix 0x, then the digits
\* zero-padded so that the whole text has at least width characters
FormatHex(n, width) ==
  LET digs == HexDigitsOf(n)
      pad  == IF width - 2 > Len(digs) THEN width - 2 - Len(digs) ELSE 0
  IN  <<"0", "x">> \o [j \in 1..pad |-> "0"] \o digs

Tok(t) == [t |-> t, name |-> "", n |-> 0, text |-> <<>>]

TokDefine(name, n) == [t |-> "define", name |-> name, n |-> n, text |-> <<>>]

TokDecl(name) == [t |-> "decl", name |-> name, n |-> 0, text |-> <<>>]

TokHex(n, digits) ==
  [t |-> "hex", name |-> "", n |-> n, text |-> FormatHex(n, digits + 2)]

\* HexTable.__init__
HexTable(count, columns, digits) ==
  [hexLimit |-> count, hexCounter |-> 0, hexDigits |-> digits,
   hexColumns |-> columns, hexColumn |-> columns]

\* a mutation of SpaceAfterComma: tests the column of the element about to
\* be written instead of the column of the element written before it
SpaceAfterCommaNext(h) == h.hexColumn + 1 < h.hexColumns - 1

\* line 29: "If not last item on line, append space after comma"
SpaceAfterComma(h) == h.hexColumn < h.hexColumns - 1

\* HexTable.write(n): the table after the call and the text it wrote
HexWrite(h, n) ==
  LET sep   == IF h.hexCounter > 0
               THEN <<Tok("comma")>> \o
                    (IF SpaceAfterComma(h) THEN <<Tok("space")>> ELSE <<>>)
               ELSE <<>>
      col1  == h.hexColumn + 1
      wrap  == col1 >= h.hexColumns
      cnt   == h.hexCounter + 1
  IN  [hex |-> [h EXCEPT !.hexColumn = IF wrap THEN 0 ELSE col1,
                         !.hexCounter = cnt],
       out |-> sep \o (IF wrap THEN <<Tok("wrap")>> ELSE <<>>)
                   \o <<TokHex(n, h.hexDigits)>>
                   \o (IF cnt >= h.hexLimit THEN <<Tok("close")>> ELSE <<>>)]

RECURSIVE HexWriteAll(_, _)
\* "for b in vals: hex.write(b)": the writes of the first half of vals, then
\* those of the second half on the table the first half left (out comes
\* first in the record so that the first half is evaluated first)
HexWriteAll(h, vals) ==
  IF vals = <<>> THEN [hex |-> h, out |-> <<>>]
  ELSE IF Len(vals) = 1 THEN HexWrite(h, vals[1])
  ELSE LET m     == Len(vals) \div 2
           first == HexWriteAll(h, SubSeq(vals, 1, m))
           rest  == HexWriteAll(first.hex, SubSeq(vals, m + 1, Len(vals)))
       IN  [out |-> first.out \o rest.out, hex |-> rest.hex]

\* ------------------------------------------------------------ input files
\* A command-line argument is a record: name is the argument text ("10" and
\* "8" are the mode switches), kind says what Image.open makes of the file
\* ("image": decoded, with mode, size and pixel accessor px; "raw": rejected),
\* bytes is what open(filename, "rb").read() returns.  A pixel is a tuple of
\* channel values: <<v>> for modes "1" and "L", <<r, g, b>> for "RGB".
ModeArg(name) ==
  [name |-> name, kind |-> "raw", mode |-> "", size |-> <<0, 0>>,
   px |-> <<>>, bytes |-> <<>>]

ImageFile(mode, w, h, px) ==
  [name |-> "f", kind |-> "image", mode |-> mode, size |-> <<w, h>>,
   px |-> px, bytes |-> <<>>]

RawFile(bytes) ==
  [name |-> "f", kind |-> "raw", mode |-> "", size |-> <<0, 0>>,
   px |-> <<>>, bytes |-> bytes]

\* an image that is bg everywhere except fg at (hx, hy)
OneHot(w, h, hx, hy, bg, fg) ==
  [p \in (0..(w - 1)) \X (0..(h - 1)) |-> IF p = <<hx, hy>> THEN fg ELSE bg]

MonoValues == {<<0>>, <<255>>}

BitmapImages ==
  UNION { UNION { { ImageFile("1", w, h, OneHot(w, h, hx, hy, bg, fg)) :
                      hx \in 0..(w - 1), hy \in 0..(h - 1),
                      bg \in MonoValues, fg \in MonoValues } :
                  h \in 1..MaxBitmapH } :
          w \in 1..MaxBitmapW }

RGBBackgrounds == {<<0, 0, 0>>, <<7, 3, 7>>}

RGBValues == {<<255, 255, 255>>, <<255, 0, 0>>, <<0, 255, 0>>, <<0, 0, 255>>,
              <<8, 4, 8>>, <<200, 100, 50>>}

GrayValues == {<<0>>, <<77>>, <<255>>}

ColorImages ==
  UNION { UNION { { ImageFile("RGB", w, h, OneHot(w, h, hx, hy, bg, fg)) :
                      hx \in 0..(w - 1), hy \in 0..(h - 1),
                      bg \in RGBBackgrounds, fg \in RGBValues }
                  \cup
                  { ImageFile("L", w, h, OneHot(w, h, hx, hy, bg, fg)) :
                      hx \in 0..(w - 1), hy \in 0..(h - 1),
                      bg \in GrayValues, fg \in GrayValues } :
                  h \in 1..MaxColorH } :
          w \in 1..MaxColorW }

\* v as nbytes bytes, least significant first
Le(v, nbytes) == [j \in 1..nbytes |-> (v \div (256 ^ (j - 1))) % 256]

RiffMagic == <<82, 73, 70, 70>>

WaveFmtMagic == <<87, 65, 86, 69, 102, 109, 116, 32>>

\* the bytes of a WAV file with the given header fields, followed by data;
\* the fmt chunk is chunksize bytes long (16 plus zero padding)
MakeWav(chunksize, channels, rate, bytesPer, bitsPer, bytesTotal, data) ==
  RiffMagic \o Le(36 + Len(data), 4) \o WaveFmtMagic \o Le(chunksize, 4)
    \o Le(1, 2) \o Le(channels, 2) \o Le(rate, 4) \o Le(rate * bytesPer, 4)
    \o Le(bytesPer, 2) \o Le(bitsPer, 2) \o [j \in 1..(chunksize - 16) |-> 0]
    \o <<100, 97, 116, 97>> \o Le(bytesTotal, 4) \o data

\* sample values (one per channel per frame) as data bytes
SampleBytes(vals, bitsPer) ==
  IF bitsPer = 8 THEN vals
  ELSE [j \in 1..(2 * Len(vals)) |->
          IF j % 2 = 1 THEN vals[(j + 1) \div 2] % 256
                       ELSE vals[j \div 2] \div 256]

Raw8Values == {0, 77, 128, 255}

Raw16Values == {0, 4804, 32767, 32768, 49152, 65535}

RawValues(bitsPer) == IF bitsPer = 8 THEN Raw8Values ELSE Raw16Values

\* well-formed WAV files: every header field agrees with the data
GoodWavs ==
  UNION { UNION { UNION {
    { RawFile(MakeWav(16, c, 8000, c * (b \div 8), b, n * c * (b \div 8),
                      SampleBytes([j \in 1..(n * c) |->
                                     IF j = hot THEN fg ELSE bg], b))) :
        hot \in 0..(n * c), bg \in RawValues(b), fg \in RawValues(b) } :
    n \in 0..(MaxSamples \div c) } :
    b \in {8, 16} } :
    c \in 1..MaxChannels }

NotRiff == RawFile(<<1, 2, 3>>)

EmptyFile == RawFile(<<>>)

\* bytes-per-frame field is zero
ZeroBytesPer == RawFile(MakeWav(16, 1, 8000, 0, 8, 2, <<10, 20>>))

\* channel count is zero, one data byte
ZeroChannels == RawFile(MakeWav(16, 0, 8000, 1, 8, 1, <<10>>))

\* the data size field says 4 bytes, 2 are present
Truncated == RawFile(MakeWav(16, 1, 8000, 1, 8, 4, <<10, 20>>))

\* 16-bit data that ends in the middle of a sample
Truncated16 == RawFile(MakeWav(16, 1, 8000, 2, 16, 4, <<10, 20, 30>>))

\* bytes-per-frame 1 for two 8-bit channels
ShortFrames == RawFile(MakeWav(16, 2, 8000, 1, 8, 2, <<10, 20>>))

\* 24 bits per sample
Wav24 == RawFile(MakeWav(16, 1, 8000, 3, 24, 3, <<1, 2, 3>>))

\* an 18-byte fmt chunk
LongFmt == RawFile(MakeWav(18, 1, 8000, 1, 8, 2, <<10, 200>>))

\* header only; the file ends right after the fmt chunk
HeaderOnly == RawFile(SubSeq(MakeWav(16, 1, 8000, 1, 8, 0, <<>>), 1, 36))

OddFiles == {NotRiff, EmptyFile, ZeroBytesPer, ZeroChannels, Truncated,
             Truncated16, ShortFrames, Wav24, LongFmt, HeaderOnly}

\* the arguments the batches are built from
BatchArgs ==
  { ModeArg("10"), ModeArg("8"),
    ImageFile("1", 1, 1, OneHot(1, 1, 0, 0, <<255>>, <<255>>)),
    ImageFile("RGB", 1, 1, OneHot(1, 1, 0, 0, <<8, 4, 8>>, <<8, 4, 8>>)),
    RawFile(MakeWav(16, 1, 8000, 2, 16, 2, <<0, 0>>)),
    RawFile(MakeWav(16, 1, 8000, 1, 8, 0, <<>>)),
    NotRiff, ZeroBytesPer, ZeroChannels, Truncated }

\* the command lines explored: one file of any kind, a mode switch followed
\* by a WAV file, and every batch of at most MaxArgs arguments
ArgLists ==
  { <<f>> : f \in BitmapImages \cup ColorImages \cup GoodWavs \cup OddFiles }
  \cup { <<ModeArg("10"), f>> : f \in GoodWavs \cup OddFiles }
  \cup UNION { [1..k -> BatchArgs] : k \in 0..MaxArgs }

\* ------------------------------------------------------------------- state
VARIABLES
  args,       \* sys.argv[1:], fixed for the run
  argIdx,     \* index of the argument the main loop is at
  reduce16,   \* the module-level 16-bit reduction mode, 8 or 10
  gammaFlag,  \* the module-level flag set by a converted colour image
  pc,         \* where the script is: "main", "image", "bitmap", "color",
              \* "wav", "wavloop", "done", "crashed" (uncaught exception);
              \* "table" is a HexTable driven on its own
  stdout,     \* everything written to sys.stdout, as tokens
  hex,        \* the HexTable most recently constructed
  img,        \* convertImage's loop variables x, y, bits, sum
  wav,        \* convertWav's locals
  ret,        \* the last value a conversion function returned, and which one
  mark        \* history: Len(stdout) when the main loop took up the argument

vars == <<args, argIdx, reduce16, gammaFlag, pc, stdout, hex, img, wav, ret, mark>>

NoImg == [x |-> 0, y |-> 0, bits |-> 0, sum |-> 0]

NoWav == [channels |-> 0, bitsPer |-> 0, samples |-> 0, index_in |-> 0,
          buf |-> <<0, 0, 0, 0, 0>>, bufIdx |-> 1, div |-> 0, i |-> 0]

NoRet == [fn |-> "", val |-> 0]

Init ==
  /\ args \in ArgLists
  /\ argIdx = 1
  /\ reduce16 = 8
  /\ gammaFlag = 0
  /\ pc = "main"
  /\ stdout = <<>>
  /\ hex = HexTable(0, 12, 2)
  /\ img = NoImg
  /\ wav = NoWav
  /\ ret = NoRet
  /\ mark = 0

\* --------------------------------------------------------------- main loop
\* lines 213-215
MainMode10 ==
  /\ pc = "main" /\ argIdx <= Len(args)
  /\ args[argIdx].name = "10"
  /\ reduce16' = 10
  /\ argIdx' = argIdx + 1
  /\ UNCHANGED <<args, gammaFlag, pc, stdout, hex, img, wav, ret, mark>>

\* lines 216-218
MainMode8 ==
  /\ pc = "main" /\ argIdx <= Len(args)
  /\ args[argIdx].name # "10" /\ args[argIdx].name = "8"
  /\ reduce16' = 8
  /\ argIdx' = argIdx + 1
  /\ UNCHANGED <<args, gammaFlag, pc, stdout, hex, img, wav, ret, mark>>

\* line 221: call convertImage on the argument
MainConvert ==
  /\ pc = "main" /\ argIdx <= Len(args)
  /\ args[argIdx].name \notin {"10", "8"}
  /\ pc' = "image"
  /\ mark' = Len(stdout)
  /\ UNCHANGED <<args, argIdx, reduce16, gammaFlag, stdout, hex, img, wav, ret>>

\* int(math.pow(float(i)/31.0,2.7)*255.0+0.5) for i in range(32)
Gamma5Table ==
  <<0, 0, 0, 0, 1, 2, 3, 5, 7, 9, 12, 16, 20, 24, 30, 36, 43, 50, 59, 68, 78,
    89, 101, 114, 128, 143, 159, 176, 194, 213, 233, 255>>

\* int(math.pow(float(i)/63.0,2.7)*255.0+0.5) for i in range(64)
Gamma6Table ==
  <<0, 0, 0, 0, 0, 0, 0, 1, 1, 1, 2, 2, 3, 4, 4, 5, 6, 7, 9, 10, 12, 13, 15,
    17, 19, 21, 23, 26, 29, 31, 34, 38, 41, 44, 48, 52, 56, 61, 65, 70, 75,
    80, 85, 91, 97, 103, 109, 116, 122, 129, 137, 144, 152, 160, 168, 177,
    186, 195, 204, 214, 224, 234, 244, 255>>

\* lines 226-234: after the last argument, the gamma tables if the flag is set
MainEnd ==
  /\ pc = "main" /\ argIdx > Len(args)
  /\ IF gammaFlag = 1
     THEN LET g5 == HexWriteAll(HexTable(32, 12, 2), Gamma5Table)
              g6 == HexWriteAll(HexTable(64, 12, 2), Gamma6Table)
          IN  /\ stdout' = stdout \o <<TokDecl("gamma5")>> \o g5.out
                                  \o <<TokDecl("gamma6")>> \o g6.out
              /\ hex' = g6.hex
     ELSE UNCHANGED <<stdout, hex>>
  /\ pc' = "done"
  /\ UNCHANGED <<args, argIdx, reduce16, gammaFlag, img, wav, ret, mark>>

\* --------------------------------------------------------- image conversion
\* lines 49-64, 88-96 and 109-111 with 223: Image.open and the branch on
\* im.mode; a file that is no image makes convertImage return -1 and the main
\* loop call convertWav
ConvertImageOpen ==
  /\ pc = "image"
  /\ LET f == args[argIdx]
         w == f.size[1]
         h == f.size[2]
     IN  IF f.kind # "image"
         THEN /\ ret' = [fn |-> "convertImage", val |-> -1]
              /\ pc' = "wav"
              /\ UNCHANGED <<stdout, hex, img>>
         ELSE IF f.mode = "1"
         THEN /\ hex' = HexTable(((w + 7) \div 8) * h, 12, 2)
              /\ stdout' = stdout \o <<TokDefine("Width", w),
                                       TokDefine("Height", h),
                                       TokDecl("Bitmap")>>
              /\ img' = NoImg
              /\ pc' = "bitmap"
              /\ UNCHANGED ret
         ELSE /\ hex' = HexTable(w * h, 9, 4)
              /\ stdout' = stdout \o <<TokDefine("FPS", 30),
                                       TokDecl("PixelData")>>
              /\ img' = NoImg
              /\ pc' = "color"
              /\ UNCHANGED ret
  /\ UNCHANGED <<args, argIdx, reduce16, gammaFlag, wav, mark>>

\* lines 69-76: one pixel of a scanline
BitmapPixel ==
  /\ pc = "bitmap"
  /\ img.y < args[argIdx].size[2] /\ img.x < args[argIdx].size[1]
  /\ LET p    == IF args[argIdx].px[<<img.x, img.y>>][1] > 0 THEN 1 ELSE 0
         sum  == Shl(img.sum, 1) + p
         bits == img.bits + 1
     IN  IF bits >= 8
         THEN LET r == HexWrite(hex, sum)
              IN  /\ hex' = r.hex
                  /\ stdout' = stdout \o r.out
                  /\ img' = [img EXCEPT !.x = @ + 1, !.bits = 0, !.sum = 0]
         ELSE /\ img' = [img EXCEPT !.x = @ + 1, !.bits = bits, !.sum = sum]
              /\ UNCHANGED <<hex, stdout>>
  /\ UNCHANGED <<args, argIdx, reduce16, gammaFlag, pc, wav, ret, mark>>

\* lines 77-78 and 66-68: the end of a scanline, then the next one
BitmapRowEnd ==
  /\ pc = "bitmap"
  /\ img.y < args[argIdx].size[2] /\ img.x = args[argIdx].size[1]
  /\ IF img.bits > 0
     THEN LET r == HexWrite(hex, img.sum)
          IN  /\ hex' = r.hex
              /\ stdout' = stdout \o r.out
     ELSE UNCHANGED <<hex, stdout>>
  /\ img' = IF img.y + 1 < args[argIdx].size[2]
            THEN [x |-> 0, y |-> img.y + 1, bits |-> 0, sum |-> 0]
            ELSE [img EXCEPT !.y = @ + 1]
  /\ UNCHANGED <<args, argIdx, reduce16, gammaFlag, pc, wav, ret, mark>>

\* line 80 with 222-223: return 0, back in the main loop
BitmapReturn ==
  /\ pc = "bitmap"
  /\ img.y = args[argIdx].size[2]
  /\ ret' = [fn |-> "convertImage", val |-> 0]
  /\ img' = NoImg
  /\ pc' = "main"
  /\ argIdx' = argIdx + 1
  /\ UNCHANGED <<args, reduce16, gammaFlag, stdout, hex, wav, mark>>

\* im.convert("RGB") on one pixel: a grey level becomes three equal channels
ConvertRGB(mode, p) == IF mode = "RGB" THEN p ELSE <<p[1], p[1], p[1]>>

\* a mutation of Quantize565: green keeps only its top 5 bits
Quantize555(p) ==
  BitOr(BitOr(Shl(BitAnd(p[1], 248), 8), Shl(BitAnd(p[2], 248), 3)),
        Shr(p[3], 3))

\* lines 103-105: RRRRRRRR GGGGGGGG BBBBBBBB -> RRRRRGGGGGGBBBBB
Quantize565(p) ==
  BitOr(BitOr(Shl(BitAnd(p[1], 248), 8), Shl(BitAnd(p[2], 252), 3)),
        Shr(p[3], 3))

\* lines 100-105: one pixel, columns outside and rows inside
ColorPixel ==
  /\ pc = "color"
  /\ img.x < args[argIdx].size[1]
  /\ LET f == args[argIdx]
         r == HexWrite(hex, Quantize565(ConvertRGB(f.mode, f.px[<<img.x, img.y>>])))
     IN  /\ hex' = r.hex
         /\ stdout' = stdout \o r.out
         /\ img' = IF img.y + 1 < f.size[2]
                   THEN [img EXCEPT !.y = @ + 1]
                   ELSE [img EXCEPT !.x = @ + 1, !.y = 0]
  /\ UNCHANGED <<args, argIdx, reduce16, gammaFlag, pc, wav, ret, mark>>

\* line 107 with 222: return 1, and the main loop sets gammaFlag
ColorReturn ==
  /\ pc = "color"
  /\ img.x = args[argIdx].size[1]
  /\ ret' = [fn |-> "convertImage", val |-> 1]
  /\ gammaFlag' = 1
  /\ img' = NoImg
  /\ pc' = "main"
  /\ argIdx' = argIdx + 1
  /\ UNCHANGED <<args, reduce16, stdout, hex, wav, mark>>

\* --------------------------------------------------------- audio conversion
\* Python's bytes[a:b] (a, b >= 0; positions are 0-based, the end is clamped)
Slice(bytes, a, b) ==
  IF a >= Min(b, Len(bytes)) THEN <<>> ELSE SubSeq(bytes, a + 1, Min(b, Len(bytes)))

RECURSIVE uvalue(_)
\* lines 121-125: unsigned value of a series of bytes, LSB first
uvalue(bytes) ==
  IF bytes = <<>> THEN 0
  ELSE bytes[1] + Shl(uvalue(Tail(bytes)), 8)

\* a mutation of Unsigned16: the sign bit is not flipped, only an offset added
Unsigned16Offset(x) == x + 32768

\* lines 180-181: a raw 16-bit value with its top bit flipped
Unsigned16(x) == IF BitAnd(x, 32768) # 0 THEN x - 32768 ELSE x + 32768

RECURSIVE ReadChannels(_, _, _, _)
\* lines 170-183: the sum of c channels read from 0-based position idx on;
\* ok is FALSE when a read is past the end of the file (IndexError)
ReadChannels(bytes, idx, bitsPer, c) ==
  IF c <= 0 THEN [ok |-> TRUE, sum |-> 0, index_in |-> idx]
  ELSE IF bitsPer = 8 THEN
    IF idx >= Len(bytes) THEN [ok |-> FALSE, sum |-> 0, index_in |-> idx]
    ELSE LET rest == ReadChannels(bytes, idx + 1, bitsPer, c - 1)
         IN  [rest EXCEPT !.sum = bytes[idx + 1] + @]
  ELSE IF bitsPer = 16 THEN
    IF idx + 1 >= Len(bytes) THEN [ok |-> FALSE, sum |-> 0, index_in |-> idx]
    ELSE LET rest == ReadChannels(bytes, idx + 2, bitsPer, c - 1)
         IN  [rest EXCEPT
                !.sum = Unsigned16(bytes[idx + 1] + Shl(bytes[idx + 2], 8)) + @]
  ELSE ReadChannels(bytes, idx, bitsPer, c - 1)

\* a mutation of WavDiv: 16-bit data reduced to 8 bits is divided like 8-bit data
WavDivFlat(bitsPer, mode, channels) ==
  IF bitsPer = 16 /\ mode = 10 THEN channels * 64 ELSE channels

\* lines 156-166: the divisor
WavDiv(bitsPer, mode, channels) ==
  IF bitsPer = 16
  THEN IF mode = 10 THEN channels * 64 ELSE channels * 256
  ELSE channels

\* lines 156-166: the number of array elements announced to HexTable
WavCount(bitsPer, mode, samples) ==
  IF bitsPer = 16 /\ mode = 10 THEN 5 * ((samples + 3) \div 4) ELSE samples

\* lines 129-166: read the file, check the magic, parse the header, write
\* the #define lines and the array declaration.  AssertionError is caught
\* (return -1); the ZeroDivisionError of line 140 is not.
WavOpen ==
  /\ pc = "wav"
  /\ LET bytes      == args[argIdx].bytes
         chunksize  == uvalue(Slice(bytes, 16, 20))
         channels   == uvalue(Slice(bytes, 22, 24))
         rate       == uvalue(Slice(bytes, 24, 28))
         bytesPer   == uvalue(Slice(bytes, 32, 34))
         bitsPer    == uvalue(Slice(bytes, 34, 36))
         bytesTotal == uvalue(Slice(bytes, chunksize + 24, chunksize + 28))
         samples    == bytesTotal \div bytesPer
         bits       == IF bitsPer = 16 /\ reduce16 = 10 THEN 10 ELSE 8
     IN  IF ~(Slice(bytes, 0, 4) = RiffMagic /\ Slice(bytes, 8, 16) = WaveFmtMagic)
         THEN /\ ret' = [fn |-> "convertWav", val |-> -1]
              /\ pc' = "main"
              /\ argIdx' = argIdx + 1
              /\ UNCHANGED <<stdout, hex, wav>>
         ELSE IF bytesPer = 0
         THEN /\ pc' = "crashed"
              /\ UNCHANGED <<argIdx, stdout, hex, wav, ret>>
         ELSE /\ wav' = [channels |-> channels, bitsPer |-> bitsPer,
                         samples |-> samples, index_in |-> chunksize + 28,
                         buf |-> <<0, 0, 0, 0, 0>>, bufIdx |-> 1,
                         div |-> WavDiv(bitsPer, reduce16, channels), i |-> 0]
              /\ stdout' = stdout \o <<TokDefine("SampleRate", rate),
                                       TokDefine("Samples", samples),
                                       TokDefine("Bits", bits),
                                       TokDecl("AudioData")>>
              /\ hex' = HexTable(WavCount(bitsPer, reduce16, samples), 12, 2)
              /\ pc' = "wavloop"
              /\ UNCHANGED <<argIdx, ret>>
  /\ UNCHANGED <<args, reduce16, gammaFlag, img, mark>>

\* lines 168-195: one frame.  An IndexError while reading and the
\* ZeroDivisionError of a zero divisor are not caught.
WavSample ==
  /\ pc = "wavloop"
  /\ wav.i < wav.samples
  /\ LET rd == ReadChannels(args[argIdx].bytes, wav.index_in, wav.bitsPer,
                            wav.channels)
     IN  IF ~rd.ok \/ wav.div = 0
         THEN /\ pc' = "crashed"
              /\ UNCHANGED <<stdout, hex, wav>>
         ELSE IF wav.bitsPer = 16 /\ reduce16 = 10
         THEN LET sum  == rd.sum \div wav.div
                  buf0 == BitOr(Shl(wav.buf[1], 2), Shr(sum, 8))
                  buf  == [[wav.buf EXCEPT ![1] = buf0]
                             EXCEPT ![wav.bufIdx + 1] = BitAnd(sum, 255)]
              IN  IF wav.bufIdx + 1 >= 5
                  THEN LET r == HexWriteAll(hex, buf)
                       IN  /\ hex' = r.hex
                           /\ stdout' = stdout \o r.out
                           /\ wav' = [wav EXCEPT !.index_in = rd.index_in,
                                                 !.i = @ + 1,
                                                 !.buf = <<0, 0, 0, 0, 0>>,
                                                 !.bufIdx = 1]
                           /\ UNCHANGED pc
                  ELSE /\ wav' = [wav EXCEPT !.index_in = rd.index_in,
                                             !.i = @ + 1,
                                             !.buf = buf,
                                             !.bufIdx = @ + 1]
                       /\ UNCHANGED <<pc, stdout, hex>>
         ELSE LET r == HexWrite(hex, rd.sum \div wav.div)
              IN  /\ hex' = r.hex
                  /\ stdout' = stdout \o r.out
                  /\ wav' = [wav EXCEPT !.index_in = rd.index_in, !.i = @ + 1]
                  /\ UNCHANGED pc
  /\ UNCHANGED <<args, argIdx, reduce16, gammaFlag, img, ret, mark>>

\* lines 197-200: the trailing partial group, then return 1
WavFinish ==
  /\ pc = "wavloop"
  /\ wav.i = wav.samples
  /\ IF wav.bitsPer = 16 /\ reduce16 = 10 /\ wav.bufIdx > 1
     THEN LET r == HexWriteAll(hex, wav.buf)
          IN  /\ hex' = r.hex
              /\ stdout' = stdout \o r.out
     ELSE UNCHANGED <<hex, stdout>>
  /\ ret' = [fn |-> "convertWav", val |-> 1]
  /\ wav' = NoWav
  /\ pc' = "main"
  /\ argIdx' = argIdx + 1
  /\ UNCHANGED <<args, reduce16, gammaFlag, img, mark>>

\* ------------------------------------------------------------ specification
Next ==
  \/ MainMode10
  \/ MainMode8
  \/ MainConvert
  \/ MainEnd
  \/ ConvertImageOpen
  \/ BitmapPixel
  \/ BitmapRowEnd
  \/ BitmapReturn
  \/ ColorPixel
  \/ ColorReturn
  \/ WavOpen
  \/ WavSample
  \/ WavFinish

Spec == Init /\ [][Next]_vars

\* ----------------------------------------------- the formatter on its own
\* a HexTable constructed with any count, column count and digit count
InitTable ==
  /\ \E count \in 0..MaxCount, columns \in 1..MaxColumns, digits \in {2, 4} :
       hex = HexTable(count, columns, digits)
  /\ args = <<>>
  /\ argIdx = 1
  /\ reduce16 = 8
  /\ gammaFlag = 0
  /\ pc = "table"
  /\ stdout = <<>>
  /\ img = NoImg
  /\ wav = NoWav
  /\ ret = NoRet
  /\ mark = 0

\* one call of write, as long as the announced count is not exceeded
TableWrite ==
  /\ pc = "table"
  /\ hex.hexCounter < hex.hexLimit
  /\ \E n \in {7, 4660} :
       LET r == HexWrite(hex, n)
       IN  /\ hex' = r.hex
           /\ stdout' = stdout \o r.out
  /\ UNCHANGED <<args, argIdx, reduce16, gammaFlag, pc, img, wav, ret, mark>>

TableSpec == InitTable /\ [][TableWrite]_vars

\* ------------------------------------------------ reading back the output
\* the positions in out of the element tokens, in order
HexPositions(out) ==
  SelectSeq([j \in 1..Len(out) |-> j], LAMBDA j : out[j].t = "hex")

\* the position of the last array declaration in out, 0 if there is none
LastDecl(out) ==
  LET ds == {j \in 1..Len(out) : out[j].t = "decl"}
  IN  IF ds = {} THEN 0 ELSE CHOOSE j \in ds : \A k \in ds : k <= j

\* the tokens of the array being written: what follows the last declaration
Segment == SubSeq(stdout, LastDecl(stdout) + 1, Len(stdout))

\* the values of the elements of the array being written
Elems == LET pos == HexPositions(Segment)
         IN  [k \in 1..Len(pos) |-> Segment[pos[k]].n]

\* the number of tokens of kind t in out
CountTok(out, t) == Len(SelectSeq(out, LAMBDA tok : tok.t = t))

\* bit number b (0 = least significant) of v
BitOf(v, b) == (v \div (2 ^ b)) % 2

\* the file whose conversion is under way or has just returned
ImgW == args[argIdx].size[1]

ImgH == args[argIdx].size[2]

\* ------------------------------------------------------------------ C1
\* C1 (as claimed): when the bitmap branch has written the whole image,
\* there are ceil(W/8)*H bytes, bit 7 - (x mod 8) of byte y*ceil(W/8) +
\* floor(x/8) is 1 exactly when pixel (x, y) > 0, and in the last byte of a
\* row whose width is no multiple of 8 the low-order positions after the
\* row's last pixel are 0.
C1_MsbFirstPacking ==
  (pc = "bitmap" /\ img.y = ImgH) =>
    LET rowBytes == (ImgW + 7) \div 8
    IN  /\ Len(Elems) = rowBytes * ImgH
        /\ \A x \in 0..(ImgW - 1), y \in 0..(ImgH - 1) :
             BitOf(Elems[y * rowBytes + (x \div 8) + 1], 7 - (x % 8))
               = (IF args[argIdx].px[<<x, y>>][1] > 0 THEN 1 ELSE 0)
        /\ ImgW % 8 # 0 =>
             \A y \in 0..(ImgH - 1), b \in 0..(7 - (ImgW % 8)) :
               BitOf(Elems[y * rowBytes + rowBytes], b) = 0

\* ------------------------------------------------------------------ C2
\* the 5/6/5 value of a pixel, by arithmetic on its channels
Expected565(p) == (p[1] \div 8) * 2048 + (p[2] \div 4) * 32 + (p[3] \div 8)

\* the channels R, G, B of pixel (x, y) of the current image
PixelRGB(x, y) ==
  LET p == args[argIdx].px[<<x, y>>]
  IN  IF Len(p) = 3 THEN p ELSE <<p[1], p[1], p[1]>>

\* C2: in the colour branch the element at 0-based position x*H + y is
\* ((R & 0xF8) << 8) | ((G & 0xFC) << 3) | (B >> 3) of pixel (x, y), for
\* every element written so far, and W*H elements are written in all.
C2_ColumnMajor565 ==
  pc = "color" =>
    /\ Len(Elems) = hex.hexCounter
    /\ Len(Elems) <= ImgW * ImgH
    /\ \A k \in 0..(Len(Elems) - 1) :
         Elems[k + 1] = Expected565(PixelRGB(k \div ImgH, k % ImgH))
    /\ img.x = ImgW => Len(Elems) = ImgW * ImgH

\* C2 witness: a finished image at least 2 by 2 whose pixel (1, 0) is
\* (200, 100, 50) and differs from pixel (0, 1)
C2_Witness ==
  /\ pc = "color" /\ img.x = ImgW /\ ImgW >= 2 /\ ImgH >= 2
  /\ args[argIdx].px[<<1, 0>>] = <<200, 100, 50>>
  /\ Elems[ImgH + 1] = 52006
  /\ Elems[2] # 52006

\* ------------------------------------------------- reading a WAV file back
\* the header fields of file f, read at their fixed positions (0-based)
ByteAt(f, k) == f.bytes[k + 1]

Word16At(f, k) == ByteAt(f, k) + 256 * ByteAt(f, k + 1)

FmtSize(f) == Word16At(f, 16) + 65536 * Word16At(f, 18)

HdrChannels(f) == Word16At(f, 22)

HdrFrameBytes(f) == Word16At(f, 32)

HdrBitsPer(f) == Word16At(f, 34)

DataStart(f) == FmtSize(f) + 28

\* f is a WAV file whose header agrees with its contents: the magic is there,
\* at least one channel, 8 or 16 bits, frames of channels * bits / 8 bytes,
\* and the data size field is the number of bytes that follow it
WellFormedWav(f) ==
  /\ f.kind = "raw" /\ Len(f.bytes) >= 44
  /\ SubSeq(f.bytes, 1, 4) = RiffMagic /\ SubSeq(f.bytes, 9, 16) = WaveFmtMagic
  /\ Len(f.bytes) >= DataStart(f)
  /\ HdrChannels(f) >= 1
  /\ HdrBitsPer(f) \in {8, 16}
  /\ HdrFrameBytes(f) = HdrChannels(f) * (HdrBitsPer(f) \div 8)
  /\ Word16At(f, DataStart(f) - 4) + 65536 * Word16At(f, DataStart(f) - 2)
       = Len(f.bytes) - DataStart(f)

\* the number of frames of a well-formed file
Frames(f) == (Len(f.bytes) - DataStart(f)) \div HdrFrameBytes(f)

\* the unsigned value of channel c of frame i: the raw byte, or the raw
\* little-endian 16-bit value moved by 32768 towards the other half
UnsignedSample(f, i, c) ==
  IF HdrBitsPer(f) = 8
  THEN ByteAt(f, DataStart(f) + i * HdrChannels(f) + c)
  ELSE LET raw == Word16At(f, DataStart(f) + 2 * (i * HdrChannels(f) + c))
       IN  IF raw >= 32768 THEN raw - 32768 ELSE raw + 32768

RECURSIVE SumChannels(_, _, _)
\* the sum of channels 0 .. c-1 of frame i
SumChannels(f, i, c) ==
  IF c = 0 THEN 0 ELSE SumChannels(f, i, c - 1) + UnsignedSample(f, i, c - 1)

FrameSum(f, i) == SumChannels(f, i, HdrChannels(f))

\* convertWav is at work on argument k, or has just returned 1 for it
WavAt(k) ==
  \/ pc = "wavloop" /\ k = argIdx
  \/ /\ pc = "main" /\ k = argIdx - 1 /\ k >= 1
     /\ ret = [fn |-> "convertWav", val |-> 1]
     /\ args[k].name \notin {"10", "8"}

\* convertWav has returned 1 for argument k
WavDone(k) == pc = "main" /\ WavAt(k)

\* ------------------------------------------------------------------ C3
\* the 10-bit sample of slot j: frame j reduced to 10 bits, 0 past the end
Slot10(f, j) ==
  IF j < Frames(f) THEN FrameSum(f, j) \div (HdrChannels(f) * 64) ELSE 0

\* C3 (as claimed): for a 16-bit WAV in mode 10 every 5-byte group written,
\* the trailing partial group included, has byte 0 = ((s0>>8)<<6) |
\* ((s1>>8)<<4) | ((s2>>8)<<2) | (s3>>8) and bytes 1..4 = the low 8 bits of
\* s0..s3, the slots past the last sample being 0.
C3_TenBitGroups ==
  \A k \in 1..Len(args) :
    (WavAt(k) /\ WellFormedWav(args[k]) /\ HdrBitsPer(args[k]) = 16
       /\ reduce16 = 10) =>
      /\ Len(Elems) % 5 = 0
      /\ \A g \in 0..((Len(Elems) \div 5) - 1) :
           /\ Elems[5 * g + 1] =
                (Slot10(args[k], 4 * g) \div 256) * 64
                + (Slot10(args[k], 4 * g + 1) \div 256) * 16
                + (Slot10(args[k], 4 * g + 2) \div 256) * 4
                + (Slot10(args[k], 4 * g + 3) \div 256)
           /\ \A j \in 0..3 :
                Elems[5 * g + 2 + j] = Slot10(args[k], 4 * g + j) % 256

\* ------------------------------------------------------------------ C4
\* C4: in 8-bit output (8-bit source, or 16-bit source in mode 8) the i-th
\* byte written is floor(S_i / channels) for an 8-bit source and
\* floor(S_i / (channels * 256)) for a 16-bit source, S_i the sum of the
\* unsigned channel values of frame i; when convertWav has returned there is
\* one byte per frame.
C4_EightBitReduction ==
  \A k \in 1..Len(args) :
    (WavAt(k) /\ WellFormedWav(args[k])
       /\ ~(HdrBitsPer(args[k]) = 16 /\ reduce16 = 10)) =>
      /\ Len(Elems) <= Frames(args[k])
      /\ WavDone(k) => Len(Elems) = Frames(args[k])
      /\ \A i \in 0..(Len(Elems) - 1) :
           Elems[i + 1] =
             IF HdrBitsPer(args[k]) = 8
             THEN FrameSum(args[k], i) \div HdrChannels(args[k])
             ELSE FrameSum(args[k], i) \div (HdrChannels(args[k]) * 256)

\* C4 witness: a stereo 16-bit file of zeros has been converted to bytes of
\* 128
C4_WitnessStereoSilence ==
  \E k \in 1..Len(args) :
    /\ WavDone(k) /\ WellFormedWav(args[k])
    /\ HdrBitsPer(args[k]) = 16 /\ HdrChannels(args[k]) = 2 /\ reduce16 = 8
    /\ Frames(args[k]) = 2
    /\ \A j \in 0..7 : ByteAt(args[k], DataStart(args[k]) + j) = 0
    /\ Elems = <<128, 128>>

\* a second case of C4: a mono 8-bit file has been passed through unchanged
C4_WitnessMonoPassThrough ==
  \E k \in 1..Len(args) :
    /\ WavDone(k) /\ WellFormedWav(args[k])
    /\ HdrBitsPer(args[k]) = 8 /\ HdrChannels(args[k]) = 1
    /\ Frames(args[k]) = 3
    /\ Elems = <<128, 255, 128>>
    /\ Elems = SubSeq(args[k].bytes, DataStart(args[k]) + 1, Len(args[k].bytes))

\* the claim of C3 for the groups of four samples that are all present;
\* the partial group at the end is left out
FullTenBitGroups ==
  \A k \in 1..Len(args) :
    (WavAt(k) /\ WellFormedWav(args[k]) /\ HdrBitsPer(args[k]) = 16
       /\ reduce16 = 10) =>
      \A g \in 0..((Len(Elems) \div 5) - 1) :
        4 * g + 3 < Frames(args[k]) =>
          /\ Elems[5 * g + 1] =
               (Slot10(args[k], 4 * g) \div 256) * 64
               + (Slot10(args[k], 4 * g + 1) \div 256) * 16
               + (Slot10(args[k], 4 * g + 2) \div 256) * 4
               + (Slot10(args[k], 4 * g + 3) \div 256)
          /\ \A j \in 0..3 :
               Elems[5 * g + 2 + j] = Slot10(args[k], 4 * g + j) % 256

\* ------------------------------------------------------------------ C5
\* a conversion function has just returned success (0 or 1) to the main loop
ConversionDone ==
  /\ pc = "main" /\ argIdx > 1
  /\ args[argIdx - 1].name \notin {"10", "8"}
  /\ ret.fn # "" /\ ret.val >= 0

\* C5 (as claimed): when a conversion has run to completion the number of
\* writes equals the count its HexTable was constructed with, and the
\* closing " };" has been written exactly once, as the last thing written.
C5_TerminatedOnce ==
  ConversionDone =>
    /\ hex.hexCounter = hex.hexLimit
    /\ Len(Elems) = hex.hexLimit
    /\ CountTok(Segment, "close") = 1
    /\ Segment # <<>> /\ Segment[Len(Segment)].t = "close"

\* the part of C5 that does not depend on the array being non-empty: the
\* writes match the announced count, and the closing is never written twice
\* nor before the last element
WritesMatchCount ==
  /\ ConversionDone =>
       /\ hex.hexCounter = hex.hexLimit
       /\ Len(Elems) = hex.hexLimit
       /\ hex.hexLimit > 0 =>
            CountTok(Segment, "close") = 1 /\ Segment[Len(Segment)].t = "close"
  /\ pc \in {"bitmap", "color", "wavloop"} =>
       /\ hex.hexCounter <= hex.hexLimit
       /\ CountTok(Segment, "close") = (IF hex.hexCounter = hex.hexLimit
                                           /\ hex.hexLimit > 0 THEN 1 ELSE 0)

\* ------------------------------------------------------------------ C6
\* the conversion of the argument the main loop took up has failed: convertWav
\* returned -1, or an exception left it
ConversionFailed ==
  \/ pc = "crashed"
  \/ /\ pc = "main" /\ argIdx > 1
     /\ args[argIdx - 1].name \notin {"10", "8"}
     /\ ret = [fn |-> "convertWav", val |-> -1]

\* C6 (as claimed): a conversion that has failed has written nothing to
\* stdout for its file.
C6_FailureEmitsNothing == ConversionFailed => Len(stdout) = mark

\* the case of C6 the code does keep: a file rejected by the magic check
\* leaves stdout as it was
MagicFailureEmitsNothing ==
  (pc = "main" /\ argIdx > 1 /\ args[argIdx - 1].name \notin {"10", "8"}
     /\ ret = [fn |-> "convertWav", val |-> -1]) => Len(stdout) = mark

\* ------------------------------------------------------------------ C7
\* C7 (as claimed): no file's error terminates the process; the main loop
\* is never left by an exception.
C7_NeverAborts == pc # "crashed"

\* ------------------------------------------------------------------ C9
\* the arguments converted through the colour/grayscale path so far
ColorConverted ==
  \E k \in 1..Len(args) :
    k < argIdx /\ args[k].name \notin {"10", "8"}
      /\ args[k].kind = "image" /\ args[k].mode # "1"

\* the positions in out of the array declarations, in order
DeclPositions(out) ==
  SelectSeq([j \in 1..Len(out) |-> j], LAMBDA j : out[j].t = "decl")

\* stdout ends with the two gamma tables, gamma5 with 32 elements and then
\* gamma6 with 64, and they are declared nowhere else
GammaOnceAtEnd ==
  LET ds == DeclPositions(stdout)
      nd == Len(ds)
  IN  /\ nd >= 2
      /\ stdout[ds[nd - 1]].name = "gamma5" /\ stdout[ds[nd]].name = "gamma6"
      /\ \A i \in 1..(nd - 2) : stdout[ds[i]].name \notin {"gamma5", "gamma6"}
      /\ CountTok(SubSeq(stdout, ds[nd - 1], ds[nd]), "hex") = 32
      /\ CountTok(SubSeq(stdout, ds[nd], Len(stdout)), "hex") = 64
      /\ stdout[Len(stdout)].t = "close"

NoGamma ==
  \A j \in 1..Len(stdout) :
    stdout[j].t = "decl" => stdout[j].name \notin {"gamma5", "gamma6"}

\* C9 (as claimed): when the script has ended, the gamma tables (32 then 64
\* entries) are in the output once, after all file output, if at least one
\* file went through the colour path, and not at all otherwise.
C9_GammaIffColor ==
  pc \in {"done", "crashed"} =>
    IF ColorConverted THEN GammaOnceAtEnd ELSE NoGamma

\* the same for the runs that reach the end of the main loop
GammaIffColorAtNormalEnd ==
  pc = "done" => IF ColorConverted THEN GammaOnceAtEnd ELSE NoGamma

\* ------------------------------------------------------------------ C10
\* the name of the array the token at position j belongs to
ArrayOf(j) == LET d == LastDecl(SubSeq(stdout, 1, j))
              IN  IF d = 0 THEN "" ELSE stdout[d].name

\* C10: every value passed to HexTable.write fits the cell of its array (0
\* to 65535 in the colour array, 0 to 255 in every other) and is rendered as
\* 0x followed by exactly 4, respectively 2, hex digits.
C10_ValuesFitWidth ==
  \A j \in 1..Len(stdout) :
    stdout[j].t = "hex" =>
      LET digits == IF ArrayOf(j) = "PixelData" THEN 4 ELSE 2
      IN  /\ stdout[j].n >= 0
          /\ stdout[j].n < 16 ^ digits
          /\ Len(stdout[j].text) = 2 + digits
          /\ stdout[j].text[1] = "0" /\ stdout[j].text[2] = "x"
          /\ \A c \in 3..Len(stdout[j].text) :
               \E d \in 1..16 : stdout[j].text[c] = HexChars[d]

\* C10 witness: a 10-bit group whose top-bits byte is 255 and whose samples
\* are all 1023 has been written
C10_WitnessFullTopByte ==
  /\ pc = "wavloop" /\ reduce16 = 10 /\ wav.bitsPer = 16
  /\ Elems = <<255, 255, 255, 255, 255>>
  /\ stdout[Len(stdout)].text = <<"0", "x", "f", "f">>

\* ------------------------------------------------------------------ C8
\* element number k (from 1) of a table is the first, respectively the
\* last, of its line of hex.hexColumns elements
StartsLine(k) == (k - 1) % hex.hexColumns = 0

EndsLine(k) == k % hex.hexColumns = 0

\* the separator written before element k >= 2 is one comma, right after
\* element k - 1, and it is followed by a space exactly when spaced
SeparatorBefore(pos, k, spaced) ==
  LET c == pos[k - 1] + 1
  IN  /\ stdout[c].t = "comma"
      /\ CountTok(SubSeq(stdout, c, pos[k]), "comma") = 1
      /\ (stdout[c + 1].t = "space") <=> spaced

\* C8 (amended): no comma comes before the first element; before every
\* later element comes one comma, followed by a space unless the element
\* about to be written starts a new line (the element before it was the last
\* of its line); an element starts a line exactly when a line wrap is written
\* right before it.
C8_SeparatorRule ==
  LET pos == HexPositions(stdout)
  IN  \A k \in 1..Len(pos) :
        /\ (stdout[pos[k] - 1].t = "wrap") <=> StartsLine(k)
        /\ IF k = 1
           THEN CountTok(SubSeq(stdout, 1, pos[1]), "comma") = 0
           ELSE SeparatorBefore(pos, k, ~StartsLine(k))

\* C8 (as claimed): ... followed by a space unless the element about to be
\* written is the last one on the current line.
C8_SeparatorAsClaimed ==
  LET pos == HexPositions(stdout)
  IN  \A k \in 1..Len(pos) :
        IF k = 1
        THEN CountTok(SubSeq(stdout, 1, pos[1]), "comma") = 0
        ELSE SeparatorBefore(pos, k, ~EndsLine(k))

\* C8 witness: with 3 columns, 4 elements are written; the comma before the
\* third (last of its line) has its space, the comma before the fourth
\* (first of the next line) has none and is followed by the line wrap
C8_Witness ==
  LET pos == HexPositions(stdout)
  IN  /\ pc = "table" /\ hex.hexColumns = 3 /\ Len(pos) = 4
      /\ stdout[pos[2] + 1].t = "comma" /\ stdout[pos[2] + 2].t = "space"
      /\ stdout[pos[3] + 1].t = "comma" /\ stdout[pos[3] + 2].t = "wrap"

====
